---- MODULE Spec2Model ----
(***************************************************************************)
(* A model of AccessControl (src/access_control.py): the recursive group   *)
(* closure _get_groups, the role resolver _get_roles and the rule          *)
(* evaluator check with its three strategies.                              *)
(*                                                                         *)
(* A membership index (the [groups], [roles] or [resources] table) is a    *)
(* function from its keys to the SET of names in the member list: the      *)
(* code only ever asks "sub in members".  The ordered tables ([rules], a   *)
(* rule's keys, a block's triples) are sequences, since the code iterates  *)
(* them in declared order.                                                 *)
(***************************************************************************)
EXTENDS Integers, Sequences, FiniteSets, TLC

VARIABLES
  \* one run of _get_groups(subject, all_groups), step by step
  all_groups,   \* the index passed to _get_groups
  subject,      \* the subject passed to _get_groups
  res_groups,   \* the local set res_groups (line 137)
  stack,        \* the frames of _get_groups_helper, innermost last
  gpc,          \* "run" while the helper recursion is active, then "done"
  adds,         \* ghost: how often each name was added by line 143
  calls,        \* ghost: number of _get_groups_helper invocations
  steps,        \* ghost: number of steps taken by the run
  \* one run of _get_roles(subject), which starts with a _get_groups run
  all_roles,    \* the [roles] table
  role_todo,    \* the groups the loop of line 131 has still to visit
  roles_out,    \* the local set roles (line 130)
  rpc,          \* "off", or "groups", "loop", "done"
  \* the engine and its check calls, one per thread
  config,       \* self._config: the parsed document, section name -> value
  loaded,       \* ghost: the document load() stored
  pc,           \* per thread: the position of its check call
  query,        \* per thread: the arguments <<user, resource, action>>
  frame,        \* per thread: the locals of check
  result        \* per thread: what check returned or raised

gvars == <<all_groups, subject, res_groups, stack, gpc, adds, calls, steps>>
rvars == <<all_roles, role_todo, roles_out, rpc>>
cvars == <<config, loaded, pc, query, frame, result>>

vars == <<gvars, rvars, cvars>>

(***************************************************************************)
(* Bounds and name universes.                                              *)
(***************************************************************************)
NumGroups == 2

AllGroupNames == <<"g1", "g2", "g3", "g4", "g5">>
GroupNames == {AllGroupNames[i] : i \in 1..NumGroups}
UserNames == {"user1"}
MemberNames == UserNames \cup GroupNames

\* every index over GroupNames: any subset of keys, any member sets
Indexes == UNION {[K -> SUBSET MemberNames] : K \in SUBSET GroupNames}

\* the [groups] table of the test fixture (cyclic: g4 <-> g5)
FixtureGroups ==
  ("g1" :> {"user1", "user2"}) @@ ("g2" :> {"user2", "user3"}) @@
  ("g3" :> {"g1", "user5"}) @@ ("g4" :> {"g5", "g1"}) @@ ("g5" :> {"g4"})
\* the [resources] table of the test fixture
FixtureResources ==
  ("res1" :> {"part_a", "part_b"}) @@ ("res2" :> {"part_a", "part_c"})
FixtureSubjects == {"user0", "user1", "user3", "user5", "g1", "g4", "part_a"}

(***************************************************************************)
(* _get_groups and its recursive helper.                                   *)
(***************************************************************************)
\* line 139: new_groups
NewGroups(sub, idx) == {name \in DOMAIN idx : sub \in idx[name]}

\* a helper that forgets the visited set
DiffGroupsNoVisited(sub, res, idx) == NewGroups(sub, idx)

\* line 140: diff_groups = new_groups - res_groups
DiffGroups(sub, res, idx) == NewGroups(sub, idx) \ res

Top == stack[Len(stack)]
Pop == SubSeq(stack, 1, Len(stack) - 1)
Frame(sub) == [sub |-> sub, entered |-> FALSE, todo |-> {}]

\* lines 139-143: the body of _get_groups_helper(sub) up to the loop
HelperBody ==
  /\ gpc = "run" /\ stack # <<>> /\ ~Top.entered
  /\ LET diff == DiffGroups(Top.sub, res_groups, all_groups)
     IN IF diff = {}
        THEN \* line 141-142: return
             /\ stack' = Pop
             /\ UNCHANGED <<res_groups, adds>>
        ELSE \* line 143: res_groups.update(diff_groups)
             /\ res_groups' = res_groups \cup diff
             /\ adds' = [n \in DOMAIN adds |->
                           IF n \in diff THEN adds[n] + 1 ELSE adds[n]]
             /\ stack' = [stack EXCEPT ![Len(stack)] =
                           [@ EXCEPT !.entered = TRUE, !.todo = diff]]
  /\ steps' = steps + 1
  /\ UNCHANGED <<all_groups, subject, gpc, calls, rvars, cvars>>

\* a loop that drops each group without recursing into it
HelperLoopNoRecurse ==
  /\ gpc = "run" /\ stack # <<>> /\ Top.entered /\ Top.todo # {}
  /\ \E group \in Top.todo :
       stack' = [stack EXCEPT ![Len(stack)] = [@ EXCEPT !.todo = @ \ {group}]]
  /\ steps' = steps + 1
  /\ UNCHANGED <<all_groups, subject, res_groups, gpc, adds, calls, rvars, cvars>>

\* lines 144-145: for group in diff_groups: _get_groups_helper(group)
\* (a set is iterated in no particular order)
HelperLoop ==
  /\ gpc = "run" /\ stack # <<>> /\ Top.entered /\ Top.todo # {}
  /\ \E group \in Top.todo :
       stack' = Append([stack EXCEPT ![Len(stack)] =
                          [@ EXCEPT !.todo = @ \ {group}]], Frame(group))
  /\ calls' = calls + 1
  /\ steps' = steps + 1
  /\ UNCHANGED <<all_groups, subject, res_groups, gpc, adds, rvars, cvars>>

\* the helper's loop is exhausted: it returns to its caller
HelperReturn ==
  /\ gpc = "run" /\ stack # <<>> /\ Top.entered /\ Top.todo = {}
  /\ stack' = Pop
  /\ steps' = steps + 1
  /\ UNCHANGED <<all_groups, subject, res_groups, gpc, adds, calls, rvars, cvars>>

\* line 148: return res_groups
GetGroupsReturn ==
  /\ gpc = "run" /\ stack = <<>>
  /\ gpc' = "done"
  /\ steps' = steps + 1
  /\ UNCHANGED <<all_groups, subject, res_groups, stack, adds, calls, rvars, cvars>>

\* _get_groups as a function: the same recursion, the loop in a fixed order
RECURSIVE GetGroupsHelper(_, _, _)
RECURSIVE VisitAll(_, _, _)
GetGroupsHelper(sub, res, idx) ==
  LET diff == DiffGroups(sub, res, idx)
  IN IF diff = {} THEN res ELSE VisitAll(diff, res \cup diff, idx)
VisitAll(todo, res, idx) ==
  IF todo = {} THEN res
  ELSE LET group == CHOOSE g \in todo : TRUE
       IN VisitAll(todo \ {group}, GetGroupsHelper(group, res, idx), idx)
GetGroups(sub, idx) == GetGroupsHelper(sub, {sub}, idx)

EmptyTable == [k \in {} |-> {}]

\* lines 137 and 147: res_groups = {subject}; _get_groups_helper(subject)
GetGroupsEntered ==
  /\ res_groups = {subject}
  /\ stack = <<Frame(subject)>>
  /\ gpc = "run"
  /\ adds = [n \in DOMAIN all_groups \cup {subject} |-> 0]
  /\ calls = 1
  /\ steps = 0

RolesOff ==
  /\ all_roles = EmptyTable
  /\ role_todo = {}
  /\ roles_out = {}
  /\ rpc = "off"

Threads == {"t1", "t2"}

\* no engine is constructed
CheckOff ==
  /\ config = EmptyTable
  /\ loaded = EmptyTable
  /\ pc = [t \in Threads |-> "off"]
  /\ query = [t \in Threads |-> <<>>]
  /\ frame = [t \in Threads |-> <<>>]
  /\ result = [t \in Threads |-> <<>>]

ClosureInit ==
  /\ \/ all_groups \in Indexes /\ subject \in MemberNames
     \/ all_groups \in {FixtureGroups, FixtureResources}
        /\ subject \in FixtureSubjects
  /\ GetGroupsEntered
  /\ RolesOff
  /\ CheckOff

ClosureNext == HelperBody \/ HelperLoop \/ HelperReturn \/ GetGroupsReturn

SpecClosure == ClosureInit /\ [][ClosureNext]_vars

(***************************************************************************)
(* Claims about the closure.                                               *)
(***************************************************************************)
\* the containers reachable from s by "X is listed as a member of Y",
\* one or more times: there is a membership chain from s up to c
Reachable(s, idx) ==
  {c \in DOMAIN idx :
     \E n \in 1..Cardinality(DOMAIN idx) :
       \E p \in [1..n -> DOMAIN idx] :
          /\ p[n] = c
          /\ s \in idx[p[1]]
          /\ \A i \in 1..(n - 1) : p[i] \in idx[p[i + 1]]}

\* the closure as a fixed point: grow the visited set by every container
\* listing a visited name, until a pass adds nothing
RECURSIVE Grow(_, _)
Grow(S, idx) ==
  LET more == S \cup {c \in DOMAIN idx : idx[c] \cap S # {}}
  IN IF more = S THEN S ELSE Grow(more, idx)
ClosureOf(s, idx) == Grow({s}, idx)

\* C1: _get_groups returns exactly {subject} united with every container
\* reachable from the subject through one or more membership steps (which
\* is also the fixed point ClosureOf); the subject is always in the result,
\* and a subject listed in no member list yields exactly {subject}.  The
\* function form GetGroups agrees with the run.
ClosureExact ==
  gpc = "done" =>
    /\ res_groups = {subject} \cup Reachable(subject, all_groups)
    /\ res_groups = ClosureOf(subject, all_groups)
    /\ subject \in res_groups
    /\ (\A k \in DOMAIN all_groups : subject \notin all_groups[k])
         => res_groups = {subject}
    /\ GetGroups(subject, all_groups) = res_groups

\* a finished run on a cyclic index, for a subject that is no key, which
\* found an indirect container and left an unreachable one out
ClosureExactWitness ==
  /\ gpc = "done"
  /\ subject \notin DOMAIN all_groups
  /\ \E g \in res_groups : g \in Reachable(g, all_groups)
  /\ \E g \in res_groups \ {subject} : subject \notin all_groups[g]
  /\ \E k \in DOMAIN all_groups : k \notin res_groups

Total(f) ==
  LET RECURSIVE Sum(_)
      Sum(S) == IF S = {} THEN 0
                ELSE LET x == CHOOSE y \in S : TRUE IN f[x] + Sum(S \ {x})
  IN Sum(DOMAIN f)

\* C2: the recursion terminates on every index, cyclic ones included: each
\* name is added to res_groups at most once, the additions, the helper
\* invocations, the recursion depth and the steps of a run are bounded by
\* the number of containers, and a run that is not finished can always
\* take a step.
ClosureTerminates ==
  LET K == Cardinality(DOMAIN all_groups)
  IN /\ \A n \in DOMAIN adds : adds[n] <= 1
     /\ adds[subject] = 0
     /\ Total(adds) <= K
     /\ calls <= K + 1
     /\ Len(stack) <= K + 1
     /\ steps <= 3 * (K + 1) + 1
     /\ gpc # "done" => ENABLED ClosureNext

\* a finished run on a mutually cyclic index (a container that is its own
\* indirect ancestor was added), with every added name added once
ClosureTerminatesWitness ==
  /\ gpc = "done"
  /\ \E g \in DOMAIN all_groups :
       /\ g \in Reachable(g, all_groups)
       /\ g \notin all_groups[g]
       /\ adds[g] = 1
  /\ Total(adds) >= 2

(***************************************************************************)
(* _get_roles: the group closure, then one pass over the [roles] table.    *)
(***************************************************************************)
RoleNames == {"admin", "g1"}
RoleMemberNames == {"user1", "g1", "g2", "admin"}
\* every [roles] table over RoleNames: any subset of keys, any member sets
RoleIndexes == UNION {[K -> SUBSET RoleMemberNames] : K \in SUBSET RoleNames}
\* the [groups] tables in which every group lists at most one member
ChainIndexes ==
  [GroupNames -> {S \in SUBSET MemberNames : \A x, y \in S : x = y}]
\* the [roles] table of the test fixture
FixtureRoles ==
  ("admin" :> {"g4", "user3"}) @@ ("reader" :> {"g2", "user5"})

\* a pass that also returns the group itself as a role
RolesOfGroupAndGroup(group, roles_table) ==
  {name \in DOMAIN roles_table : group \in roles_table[name]} \cup {group}

\* line 132: {name for name, members in all_roles.items() if group in members}
RolesOfGroup(group, roles_table) ==
  {name \in DOMAIN roles_table : group \in roles_table[name]}

\* lines 129-130, once _get_groups (line 128) has returned
RolesBegin ==
  /\ rpc = "groups" /\ gpc = "done"
  /\ roles_out' = {subject}
  /\ role_todo' = res_groups
  /\ rpc' = "loop"
  /\ UNCHANGED <<gvars, all_roles, cvars>>

\* lines 131-132: for group in groups: roles.update(...)
RolesLoop ==
  /\ rpc = "loop"
  /\ \E group \in role_todo :
       /\ roles_out' = roles_out \cup RolesOfGroup(group, all_roles)
       /\ role_todo' = role_todo \ {group}
  /\ UNCHANGED <<gvars, all_roles, rpc, cvars>>

\* line 133: return roles
RolesReturn ==
  /\ rpc = "loop" /\ role_todo = {}
  /\ rpc' = "done"
  /\ UNCHANGED <<gvars, all_roles, role_todo, roles_out, cvars>>

\* _get_roles as a function
GetRoles(sub, user_groups, roles_table) ==
  {sub} \cup UNION {RolesOfGroup(group, roles_table) :
                      group \in GetGroups(sub, user_groups)}

RolesInit ==
  /\ \/ /\ all_groups \in ChainIndexes
        /\ all_roles \in RoleIndexes
        /\ subject \in MemberNames
     \/ /\ all_groups = FixtureGroups
        /\ all_roles = FixtureRoles
        /\ subject \in FixtureSubjects
  /\ GetGroupsEntered
  /\ role_todo = {}
  /\ roles_out = {}
  /\ rpc = "groups"
  /\ CheckOff

RolesNext == ClosureNext \/ RolesBegin \/ RolesLoop \/ RolesReturn

SpecRoles == RolesInit /\ [][RolesNext]_vars

(***************************************************************************)
(* Claims about the role resolver.                                         *)
(***************************************************************************)
\* closure(subject, groupIndex), as the claims define it
SubjectClosure == {subject} \cup Reachable(subject, all_groups)
\* the roles whose member list contains some element of the closure
RolesListingClosure ==
  {r \in DOMAIN all_roles : all_roles[r] \cap SubjectClosure # {}}
\* role r2 lists role r1, whose subjects include the subject, and r2's
\* member list contains no element of the subject's closure
ListsOnlyViaRole(r1, r2) ==
  /\ r1 # r2
  /\ all_roles[r1] \cap SubjectClosure # {}
  /\ r1 \in all_roles[r2]
  /\ all_roles[r2] \cap SubjectClosure = {}

\* C3 as stated: roles(subject) is {subject} united with the roles listing
\* an element of the closure; a role R1 listed in another role R2 never
\* makes R2 a role of R1's subjects; and no group name of the closure other
\* than the subject is returned as a role.
RolesOneLevelAsStated ==
  rpc = "done" =>
    /\ roles_out = {subject} \cup RolesListingClosure
    /\ \A r1, r2 \in DOMAIN all_roles :
         ListsOnlyViaRole(r1, r2) => (r2 \in roles_out => r2 = subject)
    /\ \A g \in SubjectClosure \ {subject} : g \notin roles_out

\* C3 (amended): roles(subject) is {subject} united with exactly the roles
\* whose member list contains an element of the closure; a role R1 listed
\* in another role R2 never makes R2 a role of R1's subjects; and a group
\* name of the closure other than the subject is returned only when it is
\* also a role name whose member list contains an element of the closure.
RolesOneLevel ==
  rpc = "done" =>
    /\ roles_out = {subject} \cup RolesListingClosure
    /\ \A r1, r2 \in DOMAIN all_roles :
         ListsOnlyViaRole(r1, r2) => (r2 \in roles_out => r2 = subject)
    /\ \A g \in SubjectClosure \ {subject} :
         g \in roles_out =>
           (g \in DOMAIN all_roles /\ all_roles[g] \cap SubjectClosure # {})
    /\ roles_out = GetRoles(subject, all_groups, all_roles)

\* a finished run in which a role was found through a group, a role that
\* lists only that role was left out, and a group of the closure was not
\* returned
RolesOneLevelWitness ==
  /\ rpc = "done"
  /\ \E r \in roles_out \ {subject} : subject \notin all_roles[r]
  /\ \E r1, r2 \in DOMAIN all_roles :
       ListsOnlyViaRole(r1, r2) /\ r2 \notin roles_out
  /\ \E g \in SubjectClosure \ {subject} : g \notin roles_out

(***************************************************************************)
(* check(user, resource, action): the rule evaluator.                      *)
(*                                                                         *)
(* The [rules] section is [list |-> FALSE, items |-> <<[name, rule], ..>>] *)
(* when declared as a table of named rules and [list |-> TRUE, items |->   *)
(* <<rule, ..>>] when declared as an array of tables.  A rule is the       *)
(* sequence of its keys in declared order, each a block [key, items], and  *)
(* the items of an allow or deny block are triples <<role, resource,       *)
(* action>>.                                                               *)
(***************************************************************************)
KEY_USER_GROUPS == "groups"
KEY_ROLES == "roles"
KEY_RESOURCE_GROUPS == "resources"
KEY_RULES == "rules"
KEY_RULE_POLICY == "rule_policy"
KEY_RULE_POLICY_MISMATCH_DECISION == "mismatch_decision"
KEY_RULE_POLICY_STRATEGY == "strategy"
KEY_RULE_POLICY_STRATEGY_FIRST_MATCH == "FIRST_MATCH"
KEY_RULE_POLICY_STRATEGY_ALL_ALLOW == "ALL_ALLOW"
KEY_RULE_POLICY_STRATEGY_ANY_ALLOW == "ANY_ALLOW"

\* dict.get(key, default)
Get(table, key, default) == IF key \in DOMAIN table THEN table[key] ELSE default

\* '%s' % value for a bool
PyStr(b) == IF b THEN "True" ELSE "False"

NoRules == [list |-> FALSE, items |-> <<>>]
NoFrame == [roles |-> {}, resources |-> {}, rules |-> <<>>,
            rule_policy |-> EmptyTable, strategy |-> "",
            ri |-> 0, bi |-> 0, ii |-> 0]
NoResult == [kind |-> "none"]
Returned(is_allowed, reason) ==
  [kind |-> "return", allowed |-> is_allowed, reason |-> reason]
Raised(message) == [kind |-> "raise", message |-> message]

\* a conversion that numbers the rules of a list from 0
NormalizeRulesFromZero(rules) ==
  IF rules.list
  THEN [k \in 1..Len(rules.items) |->
          [name |-> ToString(k - 1), rule |-> rules.items[k]]]
  ELSE rules.items

\* lines 95-96: a list of rules becomes a dict keyed 1, 2, ...; the key is
\* kept as '%s' prints it, its only use (lines 110-115)
NormalizeRules(rules) ==
  IF rules.list
  THEN [k \in 1..Len(rules.items) |->
          [name |-> ToString(k), rule |-> rules.items[k]]]
  ELSE rules.items

\* lines 150-157
IsRoleMatched(rule_role, subject_roles) == rule_role \in subject_roles
IsResourceMatched(rule_resource, subject_resources) ==
  rule_resource = "*" \/ rule_resource \in subject_resources
IsActionMatched(rule_action, subject_action) ==
  rule_action = "*" \/ rule_action = subject_action

\* lines 105-106
IsItemMatched(i, roles, resources, action) ==
  /\ IsRoleMatched(i[1], roles)
  /\ IsResourceMatched(i[2], resources)
  /\ IsActionMatched(i[3], action)

\* lines 110-111
ReasonFirstMatch(name, i, is_allowed) ==
  "[rules." \o name \o "] \"" \o i[1] \o "\" is "
    \o (IF is_allowed THEN "" ELSE "not ") \o "allowed to do \""
    \o (IF i[3] = "*" THEN "any action" ELSE i[3]) \o "\" on \"" \o i[2] \o "\""
\* line 113
ReasonAnyAllow(name, i) ==
  "[rules." \o name \o "] \"" \o i[1] \o "\" is allowed to do \""
    \o i[3] \o "\" on \"" \o i[2] \o "\""
\* line 115
ReasonAllAllow(name, i) ==
  "[rules." \o name \o "] \"" \o i[1] \o "\" is not allowed to do \""
    \o i[3] \o "\" on \"" \o i[2] \o "\""

\* a FIRST_MATCH that only returns on an allow
OnMatchAllowOnly(strategy, name, i, key) ==
  IF key = "allow"
     /\ strategy \in {KEY_RULE_POLICY_STRATEGY_FIRST_MATCH,
                      KEY_RULE_POLICY_STRATEGY_ANY_ALLOW}
  THEN Returned(TRUE, IF strategy = KEY_RULE_POLICY_STRATEGY_FIRST_MATCH
                      THEN ReasonFirstMatch(name, i, TRUE)
                      ELSE ReasonAnyAllow(name, i))
  ELSE IF strategy = KEY_RULE_POLICY_STRATEGY_ALL_ALLOW /\ key # "allow"
  THEN Returned(FALSE, ReasonAllAllow(name, i))
  ELSE NoResult

\* an ANY_ALLOW that returns on the first match, whatever its effect
OnMatchAnyFirst(strategy, name, i, key) ==
  IF strategy \in {KEY_RULE_POLICY_STRATEGY_FIRST_MATCH,
                   KEY_RULE_POLICY_STRATEGY_ANY_ALLOW}
  THEN Returned(key = "allow", ReasonFirstMatch(name, i, key = "allow"))
  ELSE IF strategy = KEY_RULE_POLICY_STRATEGY_ALL_ALLOW /\ key # "allow"
  THEN Returned(FALSE, ReasonAllAllow(name, i))
  ELSE NoResult

\* an ALL_ALLOW that returns on the first match, whatever its effect
OnMatchAllFirst(strategy, name, i, key) ==
  IF strategy \in {KEY_RULE_POLICY_STRATEGY_FIRST_MATCH,
                   KEY_RULE_POLICY_STRATEGY_ALL_ALLOW}
  THEN Returned(key = "allow", ReasonFirstMatch(name, i, key = "allow"))
  ELSE IF strategy = KEY_RULE_POLICY_STRATEGY_ANY_ALLOW /\ key = "allow"
  THEN Returned(TRUE, ReasonAnyAllow(name, i))
  ELSE NoResult

\* lines 108-115: a matched item returns, or the scan goes on (NoResult)
OnMatch(strategy, name, i, key) ==
  LET is_allowed == key = "allow"
  IN IF strategy = KEY_RULE_POLICY_STRATEGY_FIRST_MATCH
     THEN Returned(is_allowed, ReasonFirstMatch(name, i, is_allowed))
     ELSE IF strategy = KEY_RULE_POLICY_STRATEGY_ANY_ALLOW /\ is_allowed
     THEN Returned(TRUE, ReasonAnyAllow(name, i))
     ELSE IF strategy = KEY_RULE_POLICY_STRATEGY_ALL_ALLOW /\ ~is_allowed
     THEN Returned(FALSE, ReasonAllAllow(name, i))
     ELSE NoResult

\* an exhaustion that applies mismatch_decision under every strategy
OnExhaustedAlwaysMismatch(strategy, rule_policy) ==
  LET mismatch_decision ==
        Get(rule_policy, KEY_RULE_POLICY_MISMATCH_DECISION, "allow") = "allow"
  IN Returned(mismatch_decision,
              "No matched rule found, use mismatch_decision: "
                \o PyStr(mismatch_decision))

\* an exhaustion whose last branch is taken by every other strategy
OnExhaustedNoRaise(strategy, rule_policy) ==
  IF strategy = KEY_RULE_POLICY_STRATEGY_FIRST_MATCH
  THEN LET mismatch_decision ==
             Get(rule_policy, KEY_RULE_POLICY_MISMATCH_DECISION, "allow")
               = "allow"
       IN Returned(mismatch_decision,
                   "No matched rule found, use mismatch_decision: "
                     \o PyStr(mismatch_decision))
  ELSE IF strategy = KEY_RULE_POLICY_STRATEGY_ANY_ALLOW
  THEN Returned(FALSE, "All matched rules denied")
  ELSE Returned(TRUE, "All matched rules allowed")

\* lines 117-124
OnExhausted(strategy, rule_policy) ==
  IF strategy = KEY_RULE_POLICY_STRATEGY_FIRST_MATCH
  THEN LET mismatch_decision ==
             Get(rule_policy, KEY_RULE_POLICY_MISMATCH_DECISION, "allow")
               = "allow"
       IN Returned(mismatch_decision,
                   "No matched rule found, use mismatch_decision: "
                     \o PyStr(mismatch_decision))
  ELSE IF strategy = KEY_RULE_POLICY_STRATEGY_ANY_ALLOW
  THEN Returned(FALSE, "All matched rules denied")
  ELSE IF strategy = KEY_RULE_POLICY_STRATEGY_ALL_ALLOW
  THEN Returned(TRUE, "All matched rules allowed")
  ELSE Raised("Unsupported rule_policy strategy: " \o strategy)

(***************************************************************************)
(* The documents and queries the engine is checked on.                     *)
(***************************************************************************)
MaxTriples == 2

RuleNames == <<"r1", "r2">>
Triples == {<<"admin", "res1", "*">>, <<"reader", "*", "GET">>}
\* the keys of a rule in declared order; "note" is a key other than allow
\* and deny
KeyOrders == {<<"note">>, <<"allow">>, <<"deny">>,
              <<"allow", "deny">>, <<"deny", "allow">>, <<"note", "deny">>}
Strategies == {"FIRST_MATCH", "ALL_ALLOW", "ANY_ALLOW", "LAST_MATCH"}
Decisions == {"allow", "deny"}

\* the item lists of a block with n triples
ItemLists(key, n) ==
  IF key \in {"allow", "deny"} THEN [1..n -> Triples]
  ELSE IF n = 0 THEN {<<>>} ELSE {}

\* the rules with the keys ko and n triples in all
RECURSIVE BlocksOf(_, _)
BlocksOf(ko, n) ==
  IF ko = <<>> THEN (IF n = 0 THEN {<<>>} ELSE {})
  ELSE UNION {{<<[key |-> Head(ko), items |-> items]>> \o rest :
                 items \in ItemLists(Head(ko), a),
                 rest \in BlocksOf(Tail(ko), n - a)} : a \in 0..n}
RuleBodies(kos, n) == UNION {BlocksOf(ko, n) : ko \in kos}

\* the sequences of m rules with keys among kos and n triples in all
RECURSIVE RuleSeqs(_, _, _)
RuleSeqs(kos, m, n) ==
  IF m = 0 THEN (IF n = 0 THEN {<<>>} ELSE {})
  ELSE UNION {{<<rule>> \o rest :
                 rule \in RuleBodies(kos, a),
                 rest \in RuleSeqs(kos, m - 1, n - a)} : a \in 0..n}
AllRuleSeqs ==
  UNION {RuleSeqs(KeyOrders, m, n) :
           m \in 0..Len(RuleNames), n \in 0..MaxTriples}
\* the sequences whose rules have one block each
PlainRuleSeqs ==
  UNION {RuleSeqs({<<"allow">>, <<"deny">>}, m, n) :
           m \in 0..Len(RuleNames), n \in 0..MaxTriples}
SmallRuleSeqs == UNION {RuleSeqs(KeyOrders, m, n) : m \in 0..1, n \in 0..1}

AsTable(rule_seq) ==
  [list |-> FALSE,
   items |-> [k \in 1..Len(rule_seq) |->
                [name |-> RuleNames[k], rule |-> rule_seq[k]]]]
AsList(rule_seq) == [list |-> TRUE, items |-> rule_seq]

\* the [rule_policy] tables: either key may be missing
Policies ==
  {EmptyTable}
    \cup {(KEY_RULE_POLICY_STRATEGY :> st) : st \in Strategies}
    \cup {(KEY_RULE_POLICY_MISMATCH_DECISION :> d) : d \in Decisions}
    \cup {(KEY_RULE_POLICY_STRATEGY :> st)
            @@ (KEY_RULE_POLICY_MISMATCH_DECISION :> d) :
            st \in Strategies, d \in Decisions}

Document(rules, rule_policy) ==
  (KEY_USER_GROUPS :> FixtureGroups) @@ (KEY_ROLES :> FixtureRoles)
    @@ (KEY_RESOURCE_GROUPS :> FixtureResources)
    @@ (KEY_RULES :> rules) @@ (KEY_RULE_POLICY :> rule_policy)

\* the rules r1 and r2 of the test fixture
FixtureRules ==
  [list |-> FALSE,
   items |-> <<
     [name |-> "r1",
      rule |-> <<[key |-> "allow",
                  items |-> << <<"reader", "res1", "GET">>,
                               <<"admin", "res1", "*">> >>]>>],
     [name |-> "r2",
      rule |-> <<[key |-> "deny",
                  items |-> << <<"reader", "res1", "GET">>,
                               <<"reader", "res2", "PUT">>,
                               <<"reader", "res2", "POST">> >>]>>] >>]
\* config_first_match, config_all_allow, config_any_allow
FixtureConfig(st) ==
  Document(FixtureRules,
           (KEY_RULE_POLICY_STRATEGY :> st) @@ ("mismatched" :> "allow"))
\* config_rules_only: a document with nothing but [[rules]]
RulesOnlyConfig ==
  (KEY_RULES :>
     [list |-> TRUE,
      items |-> << <<[key |-> "allow",
                      items |-> << <<"user1", "res_a", "GET">> >>],
                     [key |-> "deny",
                      items |-> << <<"user1", "res_a", "POST">> >>]>> >>])
FixtureConfigs ==
  {FixtureConfig(st) : st \in {"FIRST_MATCH", "ALL_ALLOW", "ANY_ALLOW"}}
    \cup {RulesOnlyConfig}

\* every rule sequence as a table of named rules, under each strategy
OrderConfigs ==
  {Document(AsTable(rs), (KEY_RULE_POLICY_STRATEGY :> st)) :
     rs \in AllRuleSeqs, st \in Strategies \ {"LAST_MATCH"}}
\* the one-block rule sequences as a list of rules, under each strategy
ListConfigs ==
  {Document(AsList(rs), (KEY_RULE_POLICY_STRATEGY :> st)) :
     rs \in PlainRuleSeqs, st \in Strategies \ {"LAST_MATCH"}}
\* every rule policy, over the rule sequences of at most one triple
PolicyConfigs ==
  {Document(AsTable(rs), rule_policy) :
     rs \in SmallRuleSeqs, rule_policy \in Policies}
Configs ==
  OrderConfigs \cup ListConfigs \cup PolicyConfigs \cup FixtureConfigs

\* the calls of the test suite
TestQueries ==
  {<<"user0", "part_a", "GET">>, <<"user1", "part_x", "GET">>,
   <<"user5", "part_c", "XXX">>, <<"user1", "part_c", "GET">>,
   <<"user1", "part_b", "GET">>, <<"user3", "part_c", "PUT">>,
   <<"user1", "part_a", "PUT">>, <<"user5", "part_a", "POST">>,
   <<"user1", "part_a", "POST">>, <<"user5", "part_c", "POST">>,
   <<"user1", "res_a", "GET">>, <<"user1", "res_a", "POST">>}
\* user1 is an admin, user3 an admin and a reader; part_b is in res1 and
\* part_c is not; and the unknown user, resource and action of the tests
Queries ==
  ({"user1", "user3"} \X {"part_b", "part_c"} \X {"GET", "PUT"})
    \cup {<<"user0", "part_a", "GET">>, <<"user1", "part_x", "GET">>,
          <<"user5", "part_c", "XXX">>}
QueriesFor(cfg) == IF cfg \in FixtureConfigs THEN TestQueries ELSE Queries

(***************************************************************************)
(* The steps of a check call by thread t.                                  *)
(***************************************************************************)
\* the caller invokes check(user, resource, action)
Call(t) ==
  /\ pc[t] = "idle"
  /\ \E q \in QueriesFor(config) : query' = [query EXCEPT ![t] = q]
  /\ pc' = [pc EXCEPT ![t] = "begin"]
  /\ UNCHANGED <<gvars, rvars, config, loaded, frame, result>>

\* the locals lines 91-98 compute
BeginFrame(t) ==
  LET rule_policy == Get(config, KEY_RULE_POLICY, EmptyTable)
  IN [roles |-> GetRoles(query[t][1],
                         Get(config, KEY_USER_GROUPS, EmptyTable),
                         Get(config, KEY_ROLES, EmptyTable)),
      resources |-> GetGroups(query[t][2],
                              Get(config, KEY_RESOURCE_GROUPS, EmptyTable)),
      rules |-> NormalizeRules(Get(config, KEY_RULES, NoRules)),
      rule_policy |-> rule_policy,
      strategy |-> Get(rule_policy, KEY_RULE_POLICY_STRATEGY,
                       KEY_RULE_POLICY_STRATEGY_FIRST_MATCH),
      ri |-> 0, bi |-> 0, ii |-> 0]

\* a check that stores the converted rules back into the document
BeginInPlace(t) ==
  /\ pc[t] = "begin"
  /\ frame' = [frame EXCEPT ![t] = BeginFrame(t)]
  /\ config' = IF KEY_RULES \in DOMAIN config
               THEN [config EXCEPT ![KEY_RULES] =
                       [list |-> FALSE, items |-> NormalizeRules(@)]]
               ELSE config
  /\ pc' = [pc EXCEPT ![t] = "rules"]
  /\ UNCHANGED <<gvars, rvars, loaded, query, result>>

\* lines 91-98: the roles, the resources, the rules and the strategy
Begin(t) ==
  /\ pc[t] = "begin"
  /\ frame' = [frame EXCEPT ![t] = BeginFrame(t)]
  /\ pc' = [pc EXCEPT ![t] = "rules"]
  /\ UNCHANGED <<gvars, rvars, config, loaded, query, result>>

\* line 100: for name, rule in rules.items()
NextRule(t) ==
  /\ pc[t] = "rules"
  /\ IF frame[t].ri < Len(frame[t].rules)
     THEN /\ frame' = [frame EXCEPT ![t].ri = @ + 1, ![t].bi = 0]
          /\ pc' = [pc EXCEPT ![t] = "keys"]
     ELSE /\ pc' = [pc EXCEPT ![t] = "exhausted"]
          /\ UNCHANGED frame
  /\ UNCHANGED <<gvars, rvars, config, loaded, query, result>>

\* lines 101-103: for key, items in rule.items(), skipping other keys
NextKey(t) ==
  /\ pc[t] = "keys"
  /\ LET rule == frame[t].rules[frame[t].ri].rule
     IN IF frame[t].bi < Len(rule)
        THEN /\ frame' = [frame EXCEPT ![t].bi = @ + 1, ![t].ii = 0]
             /\ pc' = [pc EXCEPT ![t] =
                         IF rule[frame[t].bi + 1].key \in {"allow", "deny"}
                         THEN "items" ELSE "keys"]
        ELSE /\ pc' = [pc EXCEPT ![t] = "rules"]
             /\ UNCHANGED frame
  /\ UNCHANGED <<gvars, rvars, config, loaded, query, result>>

\* lines 104-115: for i in items, returning on a match the strategy decides
NextItem(t) ==
  /\ pc[t] = "items"
  /\ LET entry == frame[t].rules[frame[t].ri]
         block == entry.rule[frame[t].bi]
     IN IF frame[t].ii < Len(block.items)
        THEN LET i == block.items[frame[t].ii + 1]
                 out == IF IsItemMatched(i, frame[t].roles,
                                         frame[t].resources, query[t][3])
                        THEN OnMatch(frame[t].strategy, entry.name, i,
                                     block.key)
                        ELSE NoResult
             IN /\ frame' = [frame EXCEPT ![t].ii = @ + 1]
                /\ IF out.kind = "return"
                   THEN /\ result' = [result EXCEPT ![t] = out]
                        /\ pc' = [pc EXCEPT ![t] = "done"]
                   ELSE UNCHANGED <<pc, result>>
        ELSE /\ pc' = [pc EXCEPT ![t] = "keys"]
             /\ UNCHANGED <<frame, result>>
  /\ UNCHANGED <<gvars, rvars, config, loaded, query>>

\* lines 117-124: the scan ended without a return
Exhausted(t) ==
  /\ pc[t] = "exhausted"
  /\ result' = [result EXCEPT ![t] =
                  OnExhausted(frame[t].strategy, frame[t].rule_policy)]
  /\ pc' = [pc EXCEPT ![t] = "done"]
  /\ UNCHANGED <<gvars, rvars, config, loaded, query, frame>>

\* the caller has the result; the thread may call again
Finish(t) ==
  /\ pc[t] = "done"
  /\ pc' = [pc EXCEPT ![t] = "idle"]
  /\ query' = [query EXCEPT ![t] = <<>>]
  /\ frame' = [frame EXCEPT ![t] = NoFrame]
  /\ result' = [result EXCEPT ![t] = NoResult]
  /\ UNCHANGED <<gvars, rvars, config, loaded>>

CheckStep(t) ==
  \/ Call(t) \/ Begin(t) \/ NextRule(t) \/ NextKey(t) \/ NextItem(t)
  \/ Exhausted(t) \/ Finish(t)

\* no _get_groups or _get_roles run is being followed
ResolversOff ==
  /\ all_groups = EmptyTable
  /\ subject = ""
  /\ res_groups = {}
  /\ stack = <<>>
  /\ gpc = "off"
  /\ adds = EmptyTable
  /\ calls = 0
  /\ steps = 0
  /\ RolesOff

\* lines 70-82: AccessControl(config) has loaded the document
Loaded(cfg) ==
  /\ config = cfg
  /\ loaded = cfg
  /\ pc = [t \in Threads |-> "idle"]
  /\ query = [t \in Threads |-> <<>>]
  /\ frame = [t \in Threads |-> NoFrame]
  /\ result = [t \in Threads |-> NoResult]

Init == ResolversOff /\ \E cfg \in Configs : Loaded(cfg)
\* one caller
Next == CheckStep("t1")
Spec == Init /\ [][Next]_vars

\* two callers on one engine holding a document of the test suite
ConcInit == ResolversOff /\ \E cfg \in FixtureConfigs : Loaded(cfg)
ConcNext == \E t \in Threads : CheckStep(t)
SpecConc == ConcInit /\ [][ConcNext]_vars

(***************************************************************************)
(* Claims about check.  The definitions below state what the claims say    *)
(* of a document cfg and a query q = <<subject, resource, action>>; they   *)
(* use none of the operators that model the code.                          *)
(***************************************************************************)
SectionOf(cfg, key, default) ==
  IF key \in DOMAIN cfg THEN cfg[key] ELSE default
RolesOfSubject(cfg, s) ==
  LET roles_table == SectionOf(cfg, "roles", EmptyTable)
      closure == ClosureOf(s, SectionOf(cfg, "groups", EmptyTable))
  IN {s} \cup {r \in DOMAIN roles_table : roles_table[r] \cap closure # {}}
ResourcesOf(cfg, res) ==
  ClosureOf(res, SectionOf(cfg, "resources", EmptyTable))
StrategyOf(cfg) ==
  SectionOf(SectionOf(cfg, "rule_policy", EmptyTable),
            "strategy", "FIRST_MATCH")
MismatchAllows(cfg) ==
  SectionOf(SectionOf(cfg, "rule_policy", EmptyTable),
            "mismatch_decision", "allow") = "allow"

DeclaredRules(cfg) == SectionOf(cfg, "rules", NoRules)
IsList(cfg) == DeclaredRules(cfg).list
RuleCount(cfg) == Len(DeclaredRules(cfg).items)
RuleAt(cfg, r) ==
  IF IsList(cfg) THEN DeclaredRules(cfg).items[r]
  ELSE DeclaredRules(cfg).items[r].rule
\* the label of the r-th declared rule: its name, or its 1-based position
LabelAt(cfg, r) ==
  IF IsList(cfg) THEN ToString(r) ELSE DeclaredRules(cfg).items[r].name

\* the triples of the allow and deny blocks, as <<rule, block, triple>>
ScanPositions(cfg) ==
  UNION {UNION {{<<r, b, i>> : i \in 1..Len(RuleAt(cfg, r)[b].items)} :
                  b \in {x \in 1..Len(RuleAt(cfg, r)) :
                           RuleAt(cfg, r)[x].key \in {"allow", "deny"}}} :
           r \in 1..RuleCount(cfg)}
TripleAt(cfg, p) == RuleAt(cfg, p[1])[p[2]].items[p[3]]
EffectAt(cfg, p) == RuleAt(cfg, p[1])[p[2]].key
\* declared order: rules, then the blocks of a rule, then the triples
Earlier(p, o) ==
  \/ p[1] < o[1]
  \/ p[1] = o[1] /\ p[2] < o[2]
  \/ p[1] = o[1] /\ p[2] = o[2] /\ p[3] < o[3]
Earliest(S) == CHOOSE p \in S : \A o \in S : o = p \/ Earlier(p, o)

Matching(cfg, q) ==
  LET subject_roles == RolesOfSubject(cfg, q[1])
      subject_resources == ResourcesOf(cfg, q[2])
  IN {p \in ScanPositions(cfg) :
        LET tr == TripleAt(cfg, p)
        IN /\ tr[1] \in subject_roles
           /\ (tr[2] = "*" \/ tr[2] \in subject_resources)
           /\ (tr[3] = "*" \/ tr[3] = q[3])}
MatchingWith(cfg, q, effect) ==
  {p \in Matching(cfg, q) : EffectAt(cfg, p) = effect}

Quoted(str) == "\"" \o str \o "\""
\* [rules.<label>] "<role>" is <verb> to do "<action>" on "<resource>"
Naming(label, tr, verb, action_text) ==
  "[rules." \o label \o "] " \o Quoted(tr[1]) \o " is " \o verb
    \o " to do " \o Quoted(action_text) \o " on " \o Quoted(tr[2])
ActionText(tr) == IF tr[3] = "*" THEN "any action" ELSE tr[3]
Verdict(allowed, reason) ==
  [kind |-> "return", allowed |-> allowed, reason |-> reason]

\* the strategy table of the evaluator
Expected(cfg, q) ==
  LET st == StrategyOf(cfg)
      M == Matching(cfg, q)
      A == MatchingWith(cfg, q, "allow")
      D == MatchingWith(cfg, q, "deny")
  IN CASE st = "FIRST_MATCH" ->
            IF M # {}
            THEN LET p == Earliest(M)
                     ok == EffectAt(cfg, p) = "allow"
                 IN Verdict(ok, Naming(LabelAt(cfg, p[1]), TripleAt(cfg, p),
                                       IF ok THEN "allowed" ELSE "not allowed",
                                       ActionText(TripleAt(cfg, p))))
            ELSE Verdict(MismatchAllows(cfg),
                         "No matched rule found, use mismatch_decision: "
                           \o (IF MismatchAllows(cfg) THEN "True" ELSE "False"))
       [] st = "ANY_ALLOW" ->
            IF A # {}
            THEN LET p == Earliest(A)
                 IN Verdict(TRUE, Naming(LabelAt(cfg, p[1]), TripleAt(cfg, p),
                                         "allowed", TripleAt(cfg, p)[3]))
            ELSE Verdict(FALSE, "All matched rules denied")
       [] st = "ALL_ALLOW" ->
            IF D # {}
            THEN LET p == Earliest(D)
                 IN Verdict(FALSE, Naming(LabelAt(cfg, p[1]), TripleAt(cfg, p),
                                          "not allowed", TripleAt(cfg, p)[3]))
            ELSE Verdict(TRUE, "All matched rules allowed")
       [] OTHER -> [kind |-> "raise",
                    message |-> "Unsupported rule_policy strategy: " \o st]

\* the document with its first two rules declared in the other order
SwapRules(cfg) ==
  [cfg EXCEPT !["rules"].items = <<@[2], @[1]>>]

\* the assertions of the test suite (test_access_control.py, lines 67-145)
TestCase(cfg, q, allowed, reason) ==
  (pc["t1"] = "done" /\ config = cfg /\ query["t1"] = q)
    => result["t1"] = Verdict(allowed, reason)
TestSuiteExpectations ==
  LET mismatch == "No matched rule found, use mismatch_decision: True"
      first == FixtureConfig("FIRST_MATCH")
      all == FixtureConfig("ALL_ALLOW")
      any == FixtureConfig("ANY_ALLOW")
  IN /\ TestCase(first, <<"user0", "part_a", "GET">>, TRUE, mismatch)
     /\ TestCase(first, <<"user1", "part_x", "GET">>, TRUE, mismatch)
     /\ TestCase(first, <<"user5", "part_c", "XXX">>, TRUE, mismatch)
     /\ TestCase(first, <<"user1", "part_c", "GET">>, TRUE, mismatch)
     /\ TestCase(first, <<"user1", "part_b", "GET">>, TRUE,
          "[rules.r1] \"admin\" is allowed to do \"any action\" on \"res1\"")
     /\ TestCase(first, <<"user3", "part_c", "PUT">>, FALSE,
          "[rules.r2] \"reader\" is not allowed to do \"PUT\" on \"res2\"")
     /\ TestCase(all, <<"user1", "part_a", "PUT">>, TRUE,
          "All matched rules allowed")
     /\ TestCase(all, <<"user5", "part_a", "POST">>, FALSE,
          "[rules.r2] \"reader\" is not allowed to do \"POST\" on \"res2\"")
     /\ TestCase(any, <<"user1", "part_a", "POST">>, TRUE,
          "[rules.r1] \"admin\" is allowed to do \"*\" on \"res1\"")
     /\ TestCase(any, <<"user5", "part_c", "POST">>, FALSE,
          "All matched rules denied")
     /\ TestCase(RulesOnlyConfig, <<"user1", "res_a", "GET">>, TRUE,
          "[rules.1] \"user1\" is allowed to do \"GET\" on \"res_a\"")
     /\ TestCase(RulesOnlyConfig, <<"user1", "res_a", "POST">>, FALSE,
          "[rules.1] \"user1\" is not allowed to do \"POST\" on \"res_a\"")

\* C4: under FIRST_MATCH, when some triple matches, check returns the
\* verdict and the reason of the earliest matching triple in declared order:
\* allowed iff it is in an allow block, the reason naming the rule's label
\* and the triple's role, resource and action ('any action' for '*').
FirstMatchEarliest ==
  \A t \in Threads :
    (pc[t] = "done" /\ StrategyOf(config) = "FIRST_MATCH"
       /\ Matching(config, query[t]) # {}) =>
      LET p == Earliest(Matching(config, query[t]))
          tr == TripleAt(config, p)
          ok == EffectAt(config, p) = "allow"
      IN /\ result[t].kind = "return"
         /\ result[t].allowed = ok
         /\ result[t].reason =
              Naming(LabelAt(config, p[1]), tr,
                     IF ok THEN "allowed" ELSE "not allowed", ActionText(tr))

\* a FIRST_MATCH call decided by a matching triple with a '*' action ahead
\* of another matching triple, on rules whose swap changes the verdict
FirstMatchEarliestWitness ==
  /\ pc["t1"] = "done" /\ StrategyOf(config) = "FIRST_MATCH"
  /\ Cardinality(Matching(config, query["t1"])) >= 2
  /\ TripleAt(config, Earliest(Matching(config, query["t1"])))[3] = "*"
  /\ RuleCount(config) = 2
  /\ result["t1"].kind = "return"
  /\ Expected(SwapRules(config), query["t1"]).allowed # result["t1"].allowed

\* C5: under ANY_ALLOW check returns allowed = true iff some triple of an
\* allow block matches, however many deny triples match before it, the
\* reason naming the first allow-matching triple; otherwise it returns
\* (false, "All matched rules denied").
AnyAllowIffSomeAllow ==
  \A t \in Threads :
    (pc[t] = "done" /\ StrategyOf(config) = "ANY_ALLOW") =>
      LET A == MatchingWith(config, query[t], "allow")
      IN /\ result[t].kind = "return"
         /\ result[t].allowed <=> A # {}
         /\ IF A # {}
            THEN result[t].reason =
                   Naming(LabelAt(config, Earliest(A)[1]),
                          TripleAt(config, Earliest(A)), "allowed",
                          TripleAt(config, Earliest(A))[3])
            ELSE result[t].reason = "All matched rules denied"

\* an ANY_ALLOW call allowed by a triple that follows a matching deny triple
AnyAllowIffSomeAllowWitness ==
  /\ pc["t1"] = "done" /\ StrategyOf(config) = "ANY_ALLOW"
  /\ result["t1"].kind = "return" /\ result["t1"].allowed
  /\ \E d \in MatchingWith(config, query["t1"], "deny") :
       Earlier(d, Earliest(MatchingWith(config, query["t1"], "allow")))

\* C6: under ALL_ALLOW check returns allowed = false iff some triple of a
\* deny block matches, however many allow triples match before it, the
\* reason naming the first deny-matching triple; otherwise it returns
\* (true, "All matched rules allowed").
AllAllowIffNoDeny ==
  \A t \in Threads :
    (pc[t] = "done" /\ StrategyOf(config) = "ALL_ALLOW") =>
      LET D == MatchingWith(config, query[t], "deny")
      IN /\ result[t].kind = "return"
         /\ ~result[t].allowed <=> D # {}
         /\ IF D # {}
            THEN result[t].reason =
                   Naming(LabelAt(config, Earliest(D)[1]),
                          TripleAt(config, Earliest(D)), "not allowed",
                          TripleAt(config, Earliest(D))[3])
            ELSE result[t].reason = "All matched rules allowed"

\* an ALL_ALLOW call denied by a triple that follows a matching allow triple
AllAllowIffNoDenyWitness ==
  /\ pc["t1"] = "done" /\ StrategyOf(config) = "ALL_ALLOW"
  /\ result["t1"].kind = "return" /\ ~result["t1"].allowed
  /\ \E a \in MatchingWith(config, query["t1"], "allow") :
       Earlier(a, Earliest(MatchingWith(config, query["t1"], "deny")))

UnsupportedStrategyRaises ==
  \A t \in Threads :
    (pc[t] \notin {"off", "idle"}
       /\ StrategyOf(config) \notin {"FIRST_MATCH", "ANY_ALLOW", "ALL_ALLOW"}) =>
      /\ result[t].kind # "return"
      /\ pc[t] = "done" =>
           result[t] = [kind |-> "raise",
                        message |-> "Unsupported rule_policy strategy: "
                                      \o StrategyOf(config)]

\* a call that raised although a triple matched the query
UnsupportedStrategyRaisesWitness ==
  /\ pc["t1"] = "done"
  /\ result["t1"].kind = "raise"
  /\ Matching(config, query["t1"]) # {}

\* the position of the triple that decides the call, if one does
Deciding(cfg, q) ==
  CASE StrategyOf(cfg) = "FIRST_MATCH" -> Matching(cfg, q)
    [] StrategyOf(cfg) = "ANY_ALLOW" -> MatchingWith(cfg, q, "allow")
    [] StrategyOf(cfg) = "ALL_ALLOW" -> MatchingWith(cfg, q, "deny")
    [] OTHER -> {}
\* the rules of a list, declared as a table of named rules in that order
Named(cfg) ==
  [cfg EXCEPT !["rules"] =
     [list |-> FALSE,
      items |-> [k \in 1..Len(@.items) |->
                   [name |-> RuleNames[k], rule |-> @.items[k]]]]]

\* C9: for rules declared as a list, a reason that names a rule names the
\* 1-based position of the rule holding the deciding triple, and the
\* verdict is that of the same rules declared as a named table.
ListLabelsPositions ==
  \A t \in Threads :
    (pc[t] = "done" /\ IsList(config)) =>
      /\ result[t].kind = "return" =>
           result[t].allowed = Expected(Named(config), query[t]).allowed
      /\ Deciding(config, query[t]) # {} =>
           LET p == Earliest(Deciding(config, query[t]))
               tr == TripleAt(config, p)
               ok == EffectAt(config, p) = "allow"
           IN /\ result[t].kind = "return"
              /\ result[t].reason =
                   Naming(ToString(p[1]), tr,
                          IF ok THEN "allowed" ELSE "not allowed",
                          IF StrategyOf(config) = "FIRST_MATCH"
                          THEN ActionText(tr) ELSE tr[3])

\* a call on a list of two rules decided by a triple of the second rule
ListLabelsPositionsWitness ==
  /\ pc["t1"] = "done" /\ IsList(config) /\ RuleCount(config) = 2
  /\ Deciding(config, query["t1"]) # {}
  /\ Earliest(Deciding(config, query["t1"]))[1] = 2
  /\ Matching(config, query["t1"]) # Deciding(config, query["t1"])

====
